---- MODULE Spec2Model ----
(***************************************************************************)
(* The callback store of systa (systa/events/store.py), its message loop   *)
(* and the native WinEvent hooks it owns, and the IdleCheck pollable       *)
(* condition (systa/events/events.py).                                     *)
(*                                                                         *)
(* One thread runs the user's code and the loop: while Store.run() is on   *)
(* the stack, user code only runs inside a callback the loop invoked.      *)
(***************************************************************************)
EXTENDS Integers, Sequences, FiniteSets, TLC

\* ------------------------------------------------------------------ bounds
\* Event ids run from 1 to MaxEvent.
MaxEvent == 2
\* Native hooks the OS hands out in one behaviour.
MaxHooks == 3
\* (callback, range) bindings the store holds at once.
MaxBindings == 2
\* Pollable bindings the store holds at once.
MaxConds == 1
\* Filter decorators stacked on one function.
MaxWraps == 2
\* run() activations on the stack at once.
MaxDepth == 2
\* UnhookWinEvent calls counted per handle; more are counted as this many.
MaxUnhooks == 2

EventIds == 1..MaxEvent

\* ------------------------------------------------------------ the universe
\* User callables, by identity:
\*   "f"    a function  def f(data: EventData)
\*   "obj"  an instance of a class with  def __call__(self, data: EventData):
\*          callable, the right signature, but no __name__ attribute
\*   "bad"  a function whose signature is not one EventData-annotated parameter
UserFuncs == {"f", "obj", "bad"}
Filters == {"p"}
\* The user function the filter decorators are applied to.
Decorated == {"f"}
\* Pollable conditions (CheckableEvent instances), by identity.
Conds == {"c1"}

NoValue == [none |-> TRUE]
\* run(stop_in): the time limit, in units of the clock.
StopIn == 1

\* A callable: the user function `orig`, wrapped by the filters in `filters`
\* (outermost first). inspect.unwrap follows __wrapped__ down to `orig`.
Bare(cb) == [orig |-> cb, filters |-> <<>>]
unwrap(func) == func.orig

\* ------------------------------------------------------------------- state
VARIABLES
    _running,                \* Store._running
    _cb_ranges,              \* dict: user function -> list of ranges (insertion order)
    _cb_checkable_events,    \* dict: user function -> list of conditions
    _derived_callback,       \* dict: user function -> callable that gets called
    _ctype_procedure_cache,  \* list of trampolines (by identity) kept from the GC
    _callback_hooks_handles, \* dict: user function -> list of hook handles
    os_hooks,                \* the OS: live hook handle -> [range, func], func being the
                             \* callable its trampoline closed over
    malformed,               \* handles ctypes cannot convert ("int too long to convert")
    unhook_calls,            \* per handle: UnhookWinEvent calls that reached the OS
                             \* (counted up to MaxUnhooks)
    next_handle,             \* the handle the next SetWinEventHook returns
    latest_wrapper,          \* user side: what the last filter decorator returned, per function
    pc,                      \* where the thread is
    bind_i,                  \* run(): bindings hooked so far
    has_deadline,            \* run(stop_in): stop_in is not None
    elapsed,                 \* msg_loop: time.time() - started_at, in units of the clock
    poll_detached,           \* msg_loop: the dict the poll tick iterates is no longer the store's
    poll_dict,               \* msg_loop: that dict, once detached (clear_store made a new one)
    poll_size,               \* msg_loop: its number of keys when the iteration began
    poll_k,                  \* msg_loop: key position of the poll iteration
    poll_j,                  \* msg_loop: position in that key's list
    poll_log,                \* history: the check() calls of the tick so far
    callee,                  \* the callable a callback invocation runs
    payload,                 \* what it is called with: [hook, event] of a native event
    frames,                  \* suspended outer run() activations (callers of a nested run)
    ret,                     \* outcome of the last completed call
    seconds,                 \* IdleCheck.seconds, in hundredths of a second
    check_count,             \* IdleCheck.check_count
    check_count_limit,       \* IdleCheck.check_count_limit
    previous_in_idle_period, \* IdleCheck.previous_in_idle_period
    previous_begin_idle_period, \* IdleCheck.previous_begin_idle_period
    ticks,                   \* calls of check() so far; the clock reads `ticks` seconds
    result,                  \* what the last check() returned
    run_len,                 \* history: length of the run of idle ticks ending at the last tick
    on_trace,                \* history: the idle times fed so far are the documented ones
    f_stack,                 \* a filtered callback: the filters stacked on F, outermost first
    f_data,                  \* the payload it is called with
    f_out                    \* what the call did, once it has been made

storeVars == <<_cb_ranges, _cb_checkable_events, _derived_callback,
               _ctype_procedure_cache, _callback_hooks_handles>>
osVars == <<os_hooks, malformed, unhook_calls, next_handle>>
pollVars == <<poll_detached, poll_dict, poll_size, poll_k, poll_j, poll_log>>
loopVars == <<pc, bind_i, has_deadline, elapsed, pollVars, callee, payload, frames>>
idleVars == <<seconds, check_count, check_count_limit, previous_in_idle_period,
              previous_begin_idle_period, ticks, result, run_len, on_trace>>
filterVars == <<f_stack, f_data, f_out>>
vars == <<_running, storeVars, osVars, latest_wrapper, loopVars, ret, idleVars,
          filterVars>>

\* --------------------------------------------------- dicts of lists (Python)
\* A defaultdict(list) is a sequence of [key, val] entries in insertion order.
Keys(d) == {d[i].key : i \in 1..Len(d)}
KeyIndex(d, k) == CHOOSE i \in 1..Len(d) : d[i].key = k
\* d.get(k, [])
DictGet(d, k) == IF k \in Keys(d) THEN d[KeyIndex(d, k)].val ELSE <<>>
\* d[k].append(v): a missing key is created by the defaultdict.
DictAppend(d, k, v) ==
    IF k \in Keys(d)
    THEN [d EXCEPT ![KeyIndex(d, k)].val = Append(@, v)]
    ELSE Append(d, [key |-> k, val |-> <<v>>])
\* itertools.chain.from_iterable(d.values())
RECURSIVE ChainValues(_)
ChainValues(d) ==
    IF d = <<>> THEN <<>> ELSE Head(d).val \o ChainValues(Tail(d))
\* The (key, value) pairs in the order `for k in d: for v in d[k]` visits them.
RECURSIVE Pairs(_)
Pairs(d) ==
    IF d = <<>> THEN <<>>
    ELSE [i \in 1..Len(Head(d).val) |-> [cb |-> Head(d).key, val |-> Head(d).val[i]]]
         \o Pairs(Tail(d))
SeqToSet(s) == {s[i] : i \in 1..Len(s)}

\* ------------------------------------------------------- store: registration
\* _check_user_callback_type: one parameter, annotated EventData.
ValidSignature(cb) == cb # "bad"
\* Functions have a __name__; an instance of a callable class has none.
HasName(cb) == cb # "obj"

\* Python values given as `events`: an int, a str, or a tuple or list of values.
PyInt(e) == [kind |-> "int", n |-> e, items |-> <<>>]
PyStr == [kind |-> "str", n |-> 0, items |-> <<>>]
PyColl(s) == [kind |-> "coll", n |-> 0, items |-> s]
is_int(val) == val.kind = "int"
\* boltons.iterutils.is_collection: an iterable that is not a string.
is_collection(val) == val.kind = "coll"
is_collection_of_ints(val) ==
    is_collection(val) /\ \A i \in 1..Len(val.items) : is_int(val.items[i])
is_collection_of_collection_of_ints(val) ==
    is_collection(val) /\ \A i \in 1..Len(val.items) : is_collection_of_ints(val.items[i])
\* A collection of ints as the tuple of its numbers.
Ints(val) == [i \in 1..Len(val.items) |-> val.items[i].n]

\* coerce_event_ranges(events): the list of ranges, or the error raised.
coerce_event_ranges(events) ==
    IF is_int(events)
    THEN [raised |-> "none", value |-> << <<events.n, events.n>> >>]
    ELSE IF is_collection_of_ints(events)
    THEN [raised |-> "none", value |-> << Ints(events) >>]
    ELSE IF is_collection_of_collection_of_ints(events)
    THEN [raised |-> "none",
          value |-> [i \in 1..Len(events.items) |-> Ints(events.items[i])]]
    ELSE [raised |-> "TypeError", value |-> <<>>]

\* event_range in self._cb_ranges.get(cb, [])
is_registered_for(ranges, cb, event_range) ==
    event_range \in SeqToSet(DictGet(ranges, cb))

\* The loop `for event_range in events` of add_user_func, from the dict `ranges`
\* and the results so far: the dict and the results it ends with, or the error.
RECURSIVE AddRanges(_, _, _, _)
AddRanges(ranges, cb, events, results) ==
    IF events = <<>>
    THEN [ranges |-> ranges, raised |-> "none", value |-> results]
    ELSE LET event_range == Head(events) IN
         IF is_registered_for(ranges, cb, event_range)
         THEN IF ~HasName(cb)
              THEN \* the debug message of the duplicate reads cb.__name__
                   [ranges |-> ranges, raised |-> "AttributeError", value |-> NoValue]
              ELSE AddRanges(ranges, cb, Tail(events),
                             (event_range :> FALSE) @@ results)
         ELSE IF ~ValidSignature(cb)
         THEN [ranges |-> ranges, raised |-> "KeyError", value |-> NoValue]
         ELSE AddRanges(DictAppend(ranges, cb, event_range), cb, Tail(events),
                        (event_range :> TRUE) @@ results)

EmptyResults == [r \in {} |-> FALSE]

\* A registration of ranges that does not compare the ends of a range.
AddUserFuncRanges_unordered(ranges, cb, events) ==
    LET c == coerce_event_ranges(events) IN
    IF c.raised # "none"
    THEN [ranges |-> ranges, raised |-> c.raised, value |-> NoValue]
    ELSE AddRanges(ranges, cb, c.value, EmptyResults)

\* Store.add_user_func for ranges: coerce, assert, then bind range by range.
AddUserFuncRanges(ranges, cb, events) ==
    LET c == coerce_event_ranges(events)
        rs == c.value
        \* the ranges `all(r[0] <= r[1] for r in ranges)` stops at
        stops == {i \in 1..Len(rs) : Len(rs[i]) < 2 \/ rs[i][1] > rs[i][2]}
        first == CHOOSE i \in stops : \A j \in stops : i <= j
    IN  IF c.raised # "none"
        THEN [ranges |-> ranges, raised |-> c.raised, value |-> NoValue]
        ELSE IF stops # {}
        THEN [ranges |-> ranges,
              raised |-> IF Len(rs[first]) < 2 THEN "IndexError" ELSE "AssertionError",
              value |-> NoValue]
        ELSE AddRanges(ranges, cb, rs, EmptyResults)

\* ---------------------------------------------------- win_events (_WinEvent)
EVENT_OBJECT_CREATE == 32768
EVENT_OBJECT_DESTROY == 32769
EVENT_SYSTEM_MINIMIZEEND == 23
EVENT_SYSTEM_MINIMIZESTART == 22
EVENT_MIN == 1
EVENT_MAX == 2147483647
_EVENT_AIA_START == 40960
_EVENT_AIA_END == 45055
ALL_AIA_EVENTS_RANGE == <<_EVENT_AIA_START, _EVENT_AIA_END>>
ALL_EVENTS_RANGE == <<EVENT_MIN, EVENT_MAX>>
\* win_events.values(): the class attributes named EVENT_*, but for EVENT_MIN
\* and EVENT_MAX.
win_events_values ==
    (1..23) \cup {32, 255, 257, 511, 19968, 20223, 29952, 30207}
        \cup (32768..32793) \cup (32800..32809) \cup {32816, 33023}
\* _WinEvent.__contains__: `in` on the two tuples and on the values.
contains(item) ==
    \/ item \in SeqToSet(ALL_EVENTS_RANGE)
    \/ item \in SeqToSet(ALL_AIA_EVENTS_RANGE)
    \/ item \in win_events_values
\* _WinEvent.is_valid_range(rng), rng a tuple of ints.
is_valid_range(rng) ==
    /\ Len(rng) = 2
    /\ (rng[1] < rng[2] \/ rng[1] = rng[2])
    /\ contains(rng[1])
    /\ contains(rng[2])

\* An update that keeps the first callable recorded for a function.
update_callable_first_wins(derived, cb, new_cb) ==
    [k \in DOMAIN derived \cup {cb} |->
        IF k \in DOMAIN derived THEN derived[k] ELSE new_cb]

\* Store.update_callable: self._derived_callback[cb] = new_cb
update_callable(derived, cb, new_cb) ==
    [k \in DOMAIN derived \cup {cb} |-> IF k = cb THEN new_cb ELSE derived[k]]

\* Store.get_derived_callable: self._derived_callback.get(cb, cb)
get_derived_callable(derived, cb) ==
    IF cb \in DOMAIN derived THEN derived[cb] ELSE Bare(cb)

\* Store.get_hookable: make_func_hookable closes over the derived callable it is
\* given; the trampoline calls that callable.
get_hookable(derived, cb) == get_derived_callable(derived, cb)

EmptyDict == <<>>
EmptyMap == [k \in {} |-> NoValue]

\* --------------------------------------------------------- store: unhooking
\* unregister_hook(hook, raise_on_err): UnhookWinEvent raises ctypes.ArgumentError
\* for a handle ctypes cannot convert; it is re-raised unless raise_on_err is off.
unregister_hook(hook, raise_on_err, bad) ==
    IF hook \in bad
    THEN [raised |-> raise_on_err, reached_os |-> FALSE, value |-> FALSE]
    ELSE [raised |-> FALSE, reached_os |-> TRUE, value |-> TRUE]

\* The first loop of unregister_all_hooks over the handles `hs`, with the
\* default raise_on_err: the live hooks and the call counts it leaves, and
\* whether it raised.
RECURSIVE Sweep(_, _, _, _)
Sweep(hs, live, calls, bad) ==
    IF hs = <<>>
    THEN [live |-> live, calls |-> calls, raised |-> FALSE]
    ELSE LET u == unregister_hook(Head(hs), TRUE, bad) IN
         IF u.raised
         THEN [live |-> live, calls |-> calls, raised |-> TRUE]
         ELSE Sweep(Tail(hs),
                    IF u.reached_os
                    THEN [h \in DOMAIN live \ {Head(hs)} |-> live[h]]
                    ELSE live,
                    IF u.reached_os
                    THEN [calls EXCEPT ![Head(hs)] =
                              IF @ < MaxUnhooks THEN @ + 1 ELSE @]
                    ELSE calls,
                    bad)

\* Store.unregister_all_hooks: unhook every stored handle, then empty the lists.
unregister_all_hooks(handles, live, calls, bad) ==
    LET s == Sweep(ChainValues(handles), live, calls, bad) IN
    [live    |-> s.live,
     calls   |-> s.calls,
     raised  |-> s.raised,
     handles |-> IF s.raised THEN handles
                 ELSE [i \in 1..Len(handles) |-> [key |-> handles[i].key, val |-> <<>>]]]

\* -------------------------------------------------------------------- Init
\* Store.__init__ and _init_store; no hook exists; the thread is in user code
\* outside any loop.
StoreInitWith(ranges, conds) ==
    /\ _running = FALSE
    /\ _cb_ranges = ranges
    /\ _cb_checkable_events = conds
    /\ _derived_callback = EmptyMap
    /\ _ctype_procedure_cache = <<>>
    /\ _callback_hooks_handles = EmptyDict
    /\ os_hooks = EmptyMap
    /\ malformed = {}
    /\ unhook_calls = [h \in 1..MaxHooks |-> 0]
    /\ next_handle = 1
    /\ latest_wrapper = [cb \in UserFuncs |-> Bare(cb)]
    /\ pc = "idle"
    /\ bind_i = 0
    /\ has_deadline = FALSE
    /\ elapsed = 0
    /\ poll_detached = FALSE
    /\ poll_dict = EmptyDict
    /\ poll_size = 0
    /\ poll_k = 0
    /\ poll_j = 0
    /\ poll_log = <<>>
    /\ callee = NoValue
    /\ payload = NoValue
    /\ frames = <<>>
    /\ ret = [op |-> "none", raised |-> "none", value |-> NoValue]

\* A store nothing was registered with.
StoreInit == StoreInitWith(EmptyDict, EmptyDict)

\* ------------------------------------------------------------- IdleCheck
\* Times are in hundredths of a second.
MaxTicks == 30
MaxLimit == 2
\* test data of test_idle_check_matches_model (docs/idle_time_model.xlsx): what
\* get_idle_time returns at the ticks 0, 1, 2, ... and what check() must answer.
TraceIdle ==
    <<-100, 88, 188, 288, 388, 488, 588, 688, 788, 888, 988,
      68, 168, 268, 368, 468, 568, 668, 768, 868, 968,
      61, 161, 261, 361, 461, 561, 661, 761>>
TraceExpected ==
    <<FALSE, FALSE, FALSE, FALSE, FALSE, FALSE, TRUE, TRUE, FALSE, FALSE, FALSE,
      FALSE, FALSE, FALSE, FALSE, FALSE, TRUE, TRUE, FALSE, FALSE, FALSE,
      FALSE, FALSE, FALSE, FALSE, FALSE, TRUE, TRUE, FALSE>>
TraceSeconds == 500
TraceLimit == 2
Thresholds == {188, TraceSeconds}
IdleTimes == {TraceIdle[i] : i \in 1..Len(TraceIdle)} \cup {TraceSeconds, TraceSeconds + 1}

\* IdleCheck.__init__(seconds, call_count_limit); the assert wants a limit > 0.
IdleCheck_init(s, call_count_limit) ==
    /\ call_count_limit > 0
    /\ seconds = s
    /\ check_count = 0
    /\ check_count_limit = call_count_limit
    /\ previous_in_idle_period = FALSE
    /\ previous_begin_idle_period = FALSE
    /\ ticks = 0
    /\ result = FALSE
    /\ run_len = 0
    /\ on_trace = (s = TraceSeconds /\ call_count_limit = TraceLimit)

\* A start of period that forgets what the previous tick saw.
is_begin_idle_period_forgetful(in_idle_period, prev_in, prev_begin) ==
    in_idle_period /\ ~prev_begin

\* check(): in_idle_period and not previous_in_idle_period and not
\* previous_begin_idle_period
is_begin_idle_period(in_idle_period, prev_in, prev_begin) ==
    in_idle_period /\ ~prev_in /\ ~prev_begin

\* A counter that starts over once it has passed the limit.
next_check_count_restarting(in_idle_period, is_begin, count, limit) ==
    IF in_idle_period /\ is_begin THEN 1
    ELSE IF in_idle_period
         THEN IF count + 1 <= limit THEN count + 1 ELSE 0
         ELSE 0

\* A counter that goes on counting past the limit.
next_check_count_unlimited(in_idle_period, is_begin, count, limit) ==
    IF in_idle_period /\ is_begin THEN 1
    ELSE IF in_idle_period
         THEN IF count + 1 = 1 /\ ~is_begin THEN 0 ELSE count + 1
         ELSE 0

\* check(): the if/elif/else that computes check_count.
next_check_count(in_idle_period, is_begin, count, limit) ==
    IF in_idle_period /\ is_begin THEN 1
    ELSE IF in_idle_period
         THEN IF count + 1 <= limit
              THEN IF count + 1 = 1 /\ ~is_begin THEN 0 ELSE count + 1
              ELSE 0
         ELSE 0

\* IdleCheck.check() at clock time `ticks` seconds, get_idle_time() returning
\* `idle_time`.
IdleCheck_check(idle_time) ==
    /\ ticks < MaxTicks
    /\ LET sys_time == 100 * ticks
           user_input_at == sys_time - idle_time
           sys_idle_duration == sys_time - user_input_at
           in_idle_period == sys_idle_duration > seconds
           is_begin == is_begin_idle_period(in_idle_period,
                                            previous_in_idle_period,
                                            previous_begin_idle_period)
           count == next_check_count(in_idle_period, is_begin, check_count,
                                     check_count_limit)
       IN /\ previous_begin_idle_period' = is_begin
          /\ previous_in_idle_period' = in_idle_period
          /\ check_count' = count
          /\ result' = (count > 0)
    /\ ticks' = ticks + 1
    /\ run_len' = IF idle_time > seconds THEN run_len + 1 ELSE 0
    /\ on_trace' = /\ on_trace
                   /\ ticks < Len(TraceIdle)
                   /\ idle_time = TraceIdle[ticks + 1]
    /\ UNCHANGED <<seconds, check_count_limit>>

\* ------------------------------------------------------------ filter_by
\* Filters stacked on one callback.
MaxStack == 2
\* Filters given to any_filter / all_filters.
MaxInner == 2
\* Idleness conditions registered before a run.
MaxRegs == 3

\* EventData.window: None (present = FALSE), or a Window whose handle is or is
\* not a window any more and whose title is an application's, one of Windows'
\* internal titles, or empty.
NoWindow == [present |-> FALSE, exists |-> FALSE, title |-> ""]
Windows ==
    {[present |-> TRUE, exists |-> e, title |-> t] :
        e \in BOOLEAN, t \in {"app", "internal", ""}}
\* The payloads: None, or an EventData.
Datas == {NoValue} \cup {[window |-> w] : w \in Windows \cup {NoWindow}}

\* Test functions, by what they do with a payload:
\*   "yes"/"no"  return True / False (filter_by.sanity)
\*   "stale"     raises pywintypes.error with winerror 1400
\*   "error"     raises something else
\*   "titled"    reads data.window.title (filter_by.require_title)
Atoms == {"yes", "no", "stale", "error", "titled"}
Atom(name) == [kind |-> "atom", name |-> name, filters |-> <<>>]

\* make_filter(test_func, exclude_sys_windows=, require_existing_window=,
\* capture_invalid_window_handle_error=): the decorator, by what it closed over.
make_filter(test_func, esw, rew, cap) ==
    [test_func |-> test_func,
     exclude_sys_windows |-> esw,
     require_existing_window |-> rew,
     capture_invalid_window_handle |-> cap]
\* @make_filter with the default values of the arguments.
make_filter_default(test_func) == make_filter(test_func, TRUE, TRUE, TRUE)
\* sanity(return_val): @make_filter(require_existing_window=False)
sanity(return_val) ==
    make_filter(Atom(IF return_val THEN "yes" ELSE "no"), TRUE, FALSE, TRUE)

\* The filters given to the combinators: default ones, sanity-like ones and
\* ones that do not capture the stale-handle error.
InnerFilters ==
    {make_filter(Atom(a), TRUE, rew, cap) :
        a \in {"yes", "no", "stale", "titled"},
        rew \in BOOLEAN, cap \in BOOLEAN} \ {make_filter(Atom(a), TRUE, FALSE, FALSE) :
                                               a \in Atoms}
InnerSeqs == UNION {[1..n -> InnerFilters] : n \in 1..MaxInner}
\* any_filter(*filters), all_filters(*filters): @make_filter on a test function
\* that closed over the filters.
any_filter(filters) ==
    make_filter_default([kind |-> "any", name |-> "_any_filter", filters |-> filters])
all_filters(filters) ==
    make_filter_default([kind |-> "all", name |-> "_all_filters", filters |-> filters])

\* What a test has evaluated, in order: [step, d, i] with step "exists"
\* (window.exists), "sys" (the system-window heuristic), "test" (the test
\* function of the filter at depth d of the stack), "inner" (the i-th filter
\* given to a combinator) or "call" (the wrapped callback F).
Step(step, d, i) == [step |-> step, d |-> d, i |-> i]
Outcome(val, raised, trace) == [val |-> val, raised |-> raised, trace |-> trace]

\* A test function without filters applied to `data`.
atom_test(name, data) ==
    CASE name = "yes"    -> Outcome(TRUE, "none", <<>>)
      [] name = "no"     -> Outcome(FALSE, "none", <<>>)
      [] name = "stale"  -> Outcome(FALSE, "stale", <<>>)
      [] name = "error"  -> Outcome(FALSE, "error", <<>>)
      [] name = "titled" ->
            IF data.window.present
            THEN Outcome(data.window.title = "app", "none", <<>>)
            ELSE Outcome(FALSE, "error", <<>>)   \* None has no attribute title

\* apply_filter(f, data): unwrap(f)(data), the test function of f on its own,
\* without the guards and the except clause of the filter made from it.
RECURSIVE test_func(_, _, _)
apply_filter(f, data) == test_func(f.test_func, data, 0)

\* any(apply_filter(f, data) for f in filters), from the i-th filter on.
RECURSIVE any_loop(_, _, _, _)
any_loop(filters, data, d, i) ==
    IF i > Len(filters) THEN Outcome(FALSE, "none", <<>>)
    ELSE LET r == apply_filter(filters[i], data)
             here == <<Step("inner", d, i)>>
         IN IF r.raised # "none" THEN Outcome(FALSE, r.raised, here)
            ELSE IF r.val THEN Outcome(TRUE, "none", here)
            ELSE LET rest == any_loop(filters, data, d, i + 1)
                 IN Outcome(rest.val, rest.raised, here \o rest.trace)

\* An all() that is handed a list: every filter is applied.
RECURSIVE all_loop_eager(_, _, _, _)
all_loop_eager(filters, data, d, i) ==
    IF i > Len(filters) THEN Outcome(TRUE, "none", <<>>)
    ELSE LET r == apply_filter(filters[i], data)
             here == <<Step("inner", d, i)>>
         IN IF r.raised # "none" THEN Outcome(FALSE, r.raised, here)
            ELSE LET rest == all_loop_eager(filters, data, d, i + 1)
                 IN Outcome(r.val /\ rest.val, rest.raised, here \o rest.trace)

\* all(apply_filter(f, data) for f in filters), from the i-th filter on.
RECURSIVE all_loop(_, _, _, _)
all_loop(filters, data, d, i) ==
    IF i > Len(filters) THEN Outcome(TRUE, "none", <<>>)
    ELSE LET r == apply_filter(filters[i], data)
             here == <<Step("inner", d, i)>>
         IN IF r.raised # "none" THEN Outcome(FALSE, r.raised, here)
            ELSE IF ~r.val THEN Outcome(FALSE, "none", here)
            ELSE LET rest == all_loop(filters, data, d, i + 1)
                 IN Outcome(rest.val, rest.raised, here \o rest.trace)

\* test_func(event_data) of the filter at depth d.
test_func(pred, data, d) ==
    LET r == CASE pred.kind = "atom" -> atom_test(pred.name, data)
               [] pred.kind = "any"  -> any_loop(pred.filters, data, d, 1)
               [] pred.kind = "all"  -> all_loop(pred.filters, data, d, 1)
    IN Outcome(r.val, r.raised, <<Step("test", d, 0)>> \o r.trace)

\* The test function of exclude_system_windows.
exclude_system_windows(data) ==
    IF ~data.window.present THEN TRUE
    ELSE data.window.title # "" /\ data.window.title # "internal"

\* A guard (a) that lets a payload without a window through.
window_guard_rejects_lenient(rew, data, d) ==
    IF rew /\ data.window.present /\ ~data.window.exists
    THEN Outcome(TRUE, "none", <<Step("exists", d, 0)>>)
    ELSE Outcome(FALSE, "none", IF rew /\ data.window.present
                                THEN <<Step("exists", d, 0)>> ELSE <<>>)

\* (require_existing_window and not event_data.window)
\*   or (require_existing_window and not event_data.window.exists): val says
\* that the guard rejects.
window_guard_rejects(rew, data, d) ==
    IF rew /\ ~data.window.present THEN Outcome(TRUE, "none", <<>>)
    ELSE IF rew
         THEN Outcome(~data.window.exists, "none", <<Step("exists", d, 0)>>)
         ELSE Outcome(FALSE, "none", <<>>)

\* exclude_sys_windows and not apply_filter(exclude_system_windows, event_data)
sys_guard_rejects(esw, data, d) ==
    IF esw THEN Outcome(~exclude_system_windows(data), "none", <<Step("sys", d, 0)>>)
    ELSE Outcome(FALSE, "none", <<>>)

\* An except clause that takes every error for the stale-handle one.
captures_any(cap, raised) == cap

\* except pywintypes.error as e: capture_invalid_window_handle and
\* e.winerror == 1400
captures(cap, raised) == cap /\ raised = "stale"

\* An event_test that runs the test function before the guards.
event_test_test_first(flt, data, d) ==
    LET t == test_func(flt.test_func, data, d)
        a == window_guard_rejects(flt.require_existing_window, data, d)
        b == sys_guard_rejects(flt.exclude_sys_windows, data, d)
    IN IF t.raised # "none"
       THEN IF captures(flt.capture_invalid_window_handle, t.raised)
            THEN Outcome(FALSE, "none", t.trace)
            ELSE Outcome(FALSE, t.raised, t.trace)
       ELSE Outcome(t.val /\ ~a.val /\ ~b.val, "none", t.trace \o a.trace \o b.trace)

\* _tester.event_test(event_data) of the filter at depth d of the stack.
event_test(flt, data, d) ==
    LET a == window_guard_rejects(flt.require_existing_window, data, d) IN
    IF a.val THEN Outcome(FALSE, "none", a.trace)
    ELSE LET b == sys_guard_rejects(flt.exclude_sys_windows, data, d) IN
         IF b.val THEN Outcome(FALSE, "none", a.trace \o b.trace)
         ELSE LET t == test_func(flt.test_func, data, d)
                  trace == a.trace \o b.trace \o t.trace
              IN IF t.raised = "none" THEN Outcome(t.val, "none", trace)
                 ELSE IF captures(flt.capture_invalid_window_handle, t.raised)
                      THEN Outcome(FALSE, "none", trace)
                      ELSE Outcome(FALSE, t.raised, trace)

\* What a call did: how often F was invoked, what the call returned ("None" or
\* the "result" of F), what it raised, and what it evaluated.
Called(invoked, returned, raised, trace) ==
    [invoked |-> invoked, returned |-> returned, raised |-> raised, trace |-> trace]

\* A wrapper that tests a payload that is not there.
RECURSIVE wrapper_no_none_check(_, _, _)
wrapper_no_none_check(stack, data, d) ==
    IF stack = <<>> THEN Called(1, "result", "none", <<Step("call", 0, 0)>>)
    ELSE IF data = NoValue THEN Called(0, "None", "error", <<Step("test", d, 0)>>)
    ELSE LET e == event_test(Head(stack), data, d) IN
         IF e.raised # "none" THEN Called(0, "None", e.raised, e.trace)
         ELSE IF ~e.val THEN Called(0, "None", "none", e.trace)
         ELSE LET r == wrapper_no_none_check(Tail(stack), data, d + 1)
              IN Called(r.invoked, r.returned, r.raised, e.trace \o r.trace)

\* A wrapper that calls what it wraps before it tests.
RECURSIVE wrapper_inside_out(_, _, _)
wrapper_inside_out(stack, data, d) ==
    IF stack = <<>> THEN Called(1, "result", "none", <<Step("call", 0, 0)>>)
    ELSE IF data = NoValue THEN Called(0, "None", "none", <<>>)
    ELSE LET r == wrapper_inside_out(Tail(stack), data, d + 1)
             e == event_test(Head(stack), data, d)
         IN IF r.raised # "none" THEN r
            ELSE IF e.raised # "none"
                 THEN Called(r.invoked, "None", e.raised, r.trace \o e.trace)
                 ELSE Called(r.invoked, IF e.val THEN r.returned ELSE "None",
                             "none", r.trace \o e.trace)

\* EventTesterBase.__call__.wrapper(data) of the outermost filter of `stack`,
\* at depth d; the empty stack is F itself.
RECURSIVE wrapper(_, _, _)
wrapper(stack, data, d) ==
    IF stack = <<>> THEN Called(1, "result", "none", <<Step("call", 0, 0)>>)
    ELSE IF data = NoValue THEN Called(0, "None", "none", <<>>)
    ELSE LET e == event_test(Head(stack), data, d) IN
         IF e.raised # "none" THEN Called(0, "None", e.raised, e.trace)
         ELSE IF ~e.val THEN Called(0, "None", "none", e.trace)
         ELSE LET r == wrapper(Tail(stack), data, d + 1)
              IN Called(r.invoked, r.returned, r.raised, e.trace \o r.trace)

\* The filters that stand alone or in a stack, and the stacks.
PlainFilters ==
    {make_filter(Atom(a), esw, rew, cap) :
        a \in Atoms, esw \in BOOLEAN, rew \in BOOLEAN, cap \in BOOLEAN}
Combinators ==
    {any_filter(fs) : fs \in InnerSeqs} \cup {all_filters(fs) : fs \in InnerSeqs}
Stacks ==
    UNION {[1..n -> PlainFilters] : n \in 1..MaxStack}
        \cup {<<c>> : c \in Combinators}

Pending == Called(0, "pending", "none", <<>>)
\* No filtered callback is under test.
NoFilterCall == f_stack = <<>> /\ f_data = NoValue /\ f_out = Pending

\* The filtered callback f_stack is called with f_data.
CallWrapped ==
    /\ f_out = Pending
    /\ f_stack # <<>>
    /\ f_out' = wrapper(f_stack, f_data, 1)
    /\ UNCHANGED <<f_stack, f_data>>

\* A store as constructed, next to an IdleCheck nothing ticks.
Init == StoreInit /\ IdleCheck_init(TraceSeconds, 1) /\ NoFilterCall

\* The thread runs user code: outside run(), or inside a callback of the loop.
InUserCode == pc \in {"idle", "native_cb", "poll_cb"}

\* ------------------------------------------------------- the events inputs
Ranges == {<<a, b>> : a \in EventIds, b \in EventIds}
PyPair(r) == PyColl(<<PyInt(r[1]), PyInt(r[2])>>)
IntArgs == {PyInt(e) : e \in EventIds}
PairArgs == {PyPair(r) : r \in Ranges}
ListArgs == {PyColl(<<PyPair(r1), PyPair(r2)>>) : r1 \in Ranges, r2 \in Ranges}

\* ------------------------------------------------------------ user actions
\* Store.add_user_func(cb, events) with an event, a range or a list of ranges.
add_user_func(cb, events) ==
    /\ InUserCode
    /\ LET a == AddUserFuncRanges(_cb_ranges, cb, events) IN
       /\ Len(Pairs(a.ranges)) <= MaxBindings
       /\ _cb_ranges' = a.ranges
       /\ ret' = [op |-> "add_user_func", raised |-> a.raised, value |-> a.value]
    /\ UNCHANGED <<_running, _cb_checkable_events, _derived_callback,
                   _ctype_procedure_cache, _callback_hooks_handles, osVars,
                   latest_wrapper, loopVars>>

\* The decorators of listen_to: the `events` each hands to specified_events,
\* and whether it calls the specified_events object it made with the function.
ListenTo == {"create", "destroy", "existence_change", "restore", "minimize",
             "any_event"}
listen_to(name) ==
    CASE name = "create" ->
           [events |-> PyInt(EVENT_OBJECT_CREATE), called |-> TRUE]
      [] name = "destroy" ->
           [events |-> PyInt(EVENT_OBJECT_CREATE), called |-> TRUE]
      [] name = "existence_change" ->
           [events |-> PyColl(<<PyInt(EVENT_OBJECT_CREATE), PyInt(EVENT_OBJECT_DESTROY)>>),
            called |-> FALSE]
      [] name = "restore" ->
           [events |-> PyInt(EVENT_SYSTEM_MINIMIZEEND), called |-> TRUE]
      [] name = "minimize" ->
           [events |-> PyInt(EVENT_SYSTEM_MINIMIZESTART), called |-> TRUE]
      [] name = "any_event" ->
           [events |-> PyPair(<<EVENT_MIN, EVENT_MAX>>), called |-> TRUE]

\* @listen_to.<name> on `func`: specified_events(events) coerces the events;
\* called with func it registers unwrap(func) and returns a wrapper of func.
\* The call returns what the decorator returns.
listen_to_call(name, func) ==
    /\ InUserCode
    /\ LET dec == listen_to(name)
           c == coerce_event_ranges(dec.events)
           ranges == PyColl([i \in 1..Len(c.value) |->
                        PyColl([j \in 1..Len(c.value[i]) |-> PyInt(c.value[i][j])])])
           a == IF c.raised # "none"
                THEN [ranges |-> _cb_ranges, raised |-> c.raised, value |-> NoValue]
                ELSE IF ~dec.called
                THEN [ranges |-> _cb_ranges, raised |-> "none", value |-> NoValue]
                ELSE AddUserFuncRanges(_cb_ranges, unwrap(func), ranges)
       IN /\ Len(Pairs(a.ranges)) <= MaxBindings
          /\ _cb_ranges' = a.ranges
          /\ ret' = [op |-> "listen_to", raised |-> a.raised,
                     value |-> [decorator |-> name,
                                returned |-> IF a.raised # "none" THEN "nothing"
                                             ELSE IF dec.called THEN "wrapper"
                                             ELSE "specified_events"]]
    /\ UNCHANGED <<_running, _cb_checkable_events, _derived_callback,
                   _ctype_procedure_cache, _callback_hooks_handles, osVars,
                   latest_wrapper, loopVars>>

\* A call of coerce_event_ranges(events) by the user's code.
coerce_event_ranges_call(events) ==
    /\ pc = "idle"
    /\ LET c == coerce_event_ranges(events) IN
       ret' = [op |-> "coerce_event_ranges", raised |-> c.raised,
               value |-> [events |-> events, result |-> c.value]]
    /\ UNCHANGED <<_running, storeVars, osVars, latest_wrapper, loopVars>>

\* A call of win_events.is_valid_range(rng) by the user's code.
is_valid_range_call(rng) ==
    /\ pc = "idle"
    /\ ret' = [op |-> "is_valid_range", raised |-> "none",
               value |-> [rng |-> rng, result |-> is_valid_range(rng)]]
    /\ UNCHANGED <<_running, storeVars, osVars, latest_wrapper, loopVars>>

\* A registration of conditions that binds a condition to a function once only.
add_checkable_once(cb, event, limit) ==
    /\ InUserCode
    /\ Len(Pairs(_cb_checkable_events)) < limit
    /\ _cb_checkable_events' =
          IF event \in SeqToSet(DictGet(_cb_checkable_events, cb))
          THEN _cb_checkable_events
          ELSE DictAppend(_cb_checkable_events, cb, event)
    /\ ret' = [op |-> "add_user_func(checkable)", raised |-> "none",
               value |-> (event :> TRUE)]
    /\ UNCHANGED <<_running, _cb_ranges, _derived_callback,
                   _ctype_procedure_cache, _callback_hooks_handles, osVars,
                   latest_wrapper, loopVars>>

\* Store.add_user_func(cb, events) with a CheckableEvent: appended, no checks;
\* `limit` bounds the conditions a store holds.
add_checkable(cb, event, limit) ==
    /\ InUserCode
    /\ Len(Pairs(_cb_checkable_events)) < limit
    /\ _cb_checkable_events' = DictAppend(_cb_checkable_events, cb, event)
    /\ ret' = [op |-> "add_user_func(checkable)", raised |-> "none",
               value |-> (event :> TRUE)]
    /\ UNCHANGED <<_running, _cb_ranges, _derived_callback,
                   _ctype_procedure_cache, _callback_hooks_handles, osVars,
                   latest_wrapper, loopVars>>

add_user_func_checkable(cb, event) == add_checkable(cb, event, MaxConds)

\* @listen_to.idleness(seconds) on `cb`, before the loop runs: a new IdleCheck
\* is made and registered for the function. The n-th IdleCheck made is n.
idleness(cb) ==
    /\ pc = "idle"
    /\ Len(Pairs(_cb_checkable_events)) < MaxRegs
    /\ LET event == Len(Pairs(_cb_checkable_events)) + 1 IN
       _cb_checkable_events' = DictAppend(_cb_checkable_events, cb, event)
    /\ ret' = [op |-> "idleness", raised |-> "none", value |-> NoValue]
    /\ UNCHANGED <<_running, _cb_ranges, _derived_callback,
                   _ctype_procedure_cache, _callback_hooks_handles, osVars,
                   latest_wrapper, loopVars>>

\* EventTesterBase.__call__(func): a filter decorator applied to `func`, which
\* is the user function itself or what the last decorator returned for it.
ApplyFilter(d, func) ==
    /\ InUserCode
    /\ Len(func.filters) < MaxWraps
    /\ LET unwrapped_func == unwrap(func)
           new_wrapper == [orig |-> func.orig, filters |-> <<d>> \o func.filters]
       IN /\ _derived_callback' =
                 update_callable(_derived_callback, unwrapped_func, new_wrapper)
          /\ latest_wrapper' =
                 [latest_wrapper EXCEPT ![unwrapped_func] = new_wrapper]
          /\ ret' = [op |-> "filter", raised |-> "none", value |-> NoValue]
    /\ UNCHANGED <<_running, _cb_ranges, _cb_checkable_events,
                   _ctype_procedure_cache, _callback_hooks_handles, osVars,
                   loopVars>>

\* Store.clear_store: unregister_all_hooks, then _init_store unless that raised.
\* A poll tick that is iterating the old dict of conditions keeps iterating it.
clear_store ==
    /\ InUserCode
    /\ LET u == unregister_all_hooks(_callback_hooks_handles, os_hooks,
                                     unhook_calls, malformed)
       IN /\ os_hooks' = u.live
          /\ unhook_calls' = u.calls
          /\ IF u.raised
             THEN /\ _callback_hooks_handles' = u.handles
                  /\ UNCHANGED <<_cb_ranges, _cb_checkable_events,
                                 _derived_callback, _ctype_procedure_cache,
                                 poll_detached, poll_dict>>
                  /\ ret' = [op |-> "clear_store", raised |-> "ArgumentError",
                             value |-> NoValue]
             ELSE /\ _derived_callback' = EmptyMap
                  /\ _cb_ranges' = EmptyDict
                  /\ _cb_checkable_events' = EmptyDict
                  /\ _ctype_procedure_cache' = <<>>
                  /\ _callback_hooks_handles' = EmptyDict
                  /\ IF pc = "poll_cb" /\ ~poll_detached
                     THEN /\ poll_detached' = TRUE
                          /\ poll_dict' = _cb_checkable_events
                     ELSE UNCHANGED <<poll_detached, poll_dict>>
                  /\ ret' = [op |-> "clear_store", raised |-> "none",
                             value |-> NoValue]
    /\ UNCHANGED <<_running, malformed, next_handle, latest_wrapper, pc, bind_i,
                   has_deadline, elapsed, poll_size, poll_k, poll_j, poll_log, callee,
                   payload, frames>>

\* ------------------------------------------------------------ Store.run
\* A run() without the guard.
already_running_unchecked == FALSE

\* `if self._running` at the top of run().
already_running == _running

\* The caller's position, kept while a run() it called is on the stack.
Frame == [pc |-> pc, bind_i |-> bind_i, has_deadline |-> has_deadline,
          elapsed |-> elapsed,
          poll_detached |-> poll_detached, poll_dict |-> poll_dict,
          poll_size |-> poll_size, poll_k |-> poll_k, poll_j |-> poll_j,
          poll_log |-> poll_log,
          callee |-> callee, payload |-> payload]

\* run() called while a loop is running: RuntimeError, nothing else happens.
\* The caller (a callback) goes on; it may catch the error or raise it.
run_rejected ==
    /\ InUserCode
    /\ already_running
    /\ ret' = [op |-> "run", raised |-> "RuntimeError: already running",
               value |-> NoValue]
    /\ UNCHANGED <<_running, storeVars, osVars, latest_wrapper, loopVars>>

\* run(stop_in) accepted: the flag is set and the binding loop begins.
run_start(deadline) ==
    /\ InUserCode
    /\ ~already_running
    /\ Len(frames) + 1 < MaxDepth + (IF pc = "idle" THEN 1 ELSE 0)
    /\ next_handle - 1 + Len(Pairs(_cb_ranges)) <= MaxHooks
    /\ _running' = TRUE
    /\ frames' = IF pc = "idle" THEN frames ELSE <<Frame>> \o frames
    /\ pc' = "binding"
    /\ bind_i' = 0
    /\ has_deadline' = deadline
    /\ elapsed' = 0
    /\ poll_detached' = FALSE
    /\ poll_dict' = EmptyDict
    /\ poll_size' = 0
    /\ poll_k' = 0
    /\ poll_j' = 0
    /\ poll_log' = <<>>
    /\ callee' = NoValue
    /\ payload' = NoValue
    /\ UNCHANGED <<storeVars, osVars, latest_wrapper, ret>>

\* A run() that resets the flag after the loop, not in a `finally`.
run_without_finally(exc) ==
    /\ _running' = (exc # "none")
    /\ ret' = [op |-> "run", raised |-> exc, value |-> NoValue]
    /\ pc' = "idle"
    /\ bind_i' = 0
    /\ has_deadline' = FALSE
    /\ elapsed' = elapsed
    /\ poll_detached' = FALSE
    /\ poll_dict' = EmptyDict
    /\ poll_size' = 0
    /\ poll_k' = 0
    /\ poll_j' = 0
    /\ poll_log' = <<>>
    /\ callee' = NoValue
    /\ payload' = NoValue
    /\ frames' = frames

\* The `finally` of run() and its return to the caller, `exc` propagating
\* ("none": a normal return).
run_finally(exc) ==
    /\ _running' = FALSE
    /\ ret' = [op |-> "run", raised |-> exc, value |-> NoValue]
    /\ IF frames = <<>>
       THEN /\ pc' = "idle"
            /\ bind_i' = 0
            /\ has_deadline' = FALSE
            /\ elapsed' = elapsed
            /\ poll_detached' = FALSE
            /\ poll_dict' = EmptyDict
            /\ poll_size' = 0
            /\ poll_k' = 0
            /\ poll_j' = 0
            /\ poll_log' = <<>>
            /\ callee' = NoValue
            /\ payload' = NoValue
            /\ frames' = frames
       ELSE /\ pc' = Head(frames).pc
            /\ bind_i' = Head(frames).bind_i
            /\ has_deadline' = Head(frames).has_deadline
            /\ elapsed' = Head(frames).elapsed
            /\ poll_detached' = Head(frames).poll_detached
            /\ poll_dict' = Head(frames).poll_dict
            /\ poll_size' = Head(frames).poll_size
            /\ poll_k' = Head(frames).poll_k
            /\ poll_j' = Head(frames).poll_j
            /\ poll_log' = Head(frames).poll_log
            /\ callee' = Head(frames).callee
            /\ payload' = Head(frames).payload
            /\ frames' = Tail(frames)

\* A binding loop that keeps no reference to the trampoline it hooks.
bind_hook_uncached(bad) ==
    /\ pc = "binding"
    /\ bind_i < Len(Pairs(_cb_ranges))
    /\ LET b == Pairs(_cb_ranges)[bind_i + 1]
           hook == next_handle
           hookable_callback == get_hookable(_derived_callback, b.cb)
           win_event_proc == hook
       IN /\ HasName(b.cb)
          /\ _ctype_procedure_cache' = _ctype_procedure_cache
          /\ os_hooks' = (hook :> [range |-> b.val, func |-> hookable_callback])
                         @@ os_hooks
          /\ _callback_hooks_handles' =
                 DictAppend(_callback_hooks_handles, b.cb, hook)
          /\ next_handle' = hook + 1
          /\ malformed' = IF bad THEN malformed \cup {hook} ELSE malformed
    /\ bind_i' = bind_i + 1
    /\ UNCHANGED <<_running, _cb_ranges, _cb_checkable_events, _derived_callback,
                   unhook_calls, latest_wrapper, pc, has_deadline, elapsed, pollVars,
                   callee, payload, frames, ret>>

\* One pass of the binding loop: a trampoline is made from the derived callable,
\* cached, hooked to the range, and the handle stored. `bad`: the handle the OS
\* returns is one ctypes later refuses to convert.
bind_hook(bad) ==
    /\ pc = "binding"
    /\ bind_i < Len(Pairs(_cb_ranges))
    /\ LET b == Pairs(_cb_ranges)[bind_i + 1]
           hook == next_handle
           hookable_callback == get_hookable(_derived_callback, b.cb)
           win_event_proc == hook
       IN /\ HasName(b.cb)
          /\ _ctype_procedure_cache' = Append(_ctype_procedure_cache, win_event_proc)
          /\ os_hooks' = (hook :> [range |-> b.val, func |-> hookable_callback])
                         @@ os_hooks
          /\ _callback_hooks_handles' =
                 DictAppend(_callback_hooks_handles, b.cb, hook)
          /\ next_handle' = hook + 1
          /\ malformed' = IF bad THEN malformed \cup {hook} ELSE malformed
    /\ bind_i' = bind_i + 1
    /\ UNCHANGED <<_running, _cb_ranges, _cb_checkable_events, _derived_callback,
                   unhook_calls, latest_wrapper, pc, has_deadline, elapsed, pollVars,
                   callee, payload, frames, ret>>

\* The binding loop raises: `callback.__name__` of a callable without a name
\* (AttributeError). Only the `finally` of run() runs.
bind_raise ==
    /\ pc = "binding"
    /\ bind_i < Len(Pairs(_cb_ranges))
    /\ ~HasName(Pairs(_cb_ranges)[bind_i + 1].cb)
    /\ run_finally("AttributeError")
    /\ UNCHANGED <<storeVars, osVars, latest_wrapper>>

\* All bindings hooked: msg_loop is entered.
bind_done ==
    /\ pc = "binding"
    /\ bind_i = Len(Pairs(_cb_ranges))
    /\ pc' = "waiting"
    /\ UNCHANGED <<_running, storeVars, osVars, latest_wrapper, bind_i,
                   has_deadline, elapsed, pollVars, callee, payload, frames, ret>>

\* ---------------------------------------------------------- Store.msg_loop
\* The loop is left: the `finally` of msg_loop unregisters the hooks (which may
\* raise and replace `exc`), then run()'s `finally` runs.
msg_loop_exit(exc) ==
    /\ LET u == unregister_all_hooks(_callback_hooks_handles, os_hooks,
                                     unhook_calls, malformed)
       IN /\ os_hooks' = u.live
          /\ unhook_calls' = u.calls
          /\ _callback_hooks_handles' = u.handles
          /\ run_finally(IF u.raised THEN "ArgumentError" ELSE exc)
    /\ UNCHANGED <<_cb_ranges, _cb_checkable_events, _derived_callback,
                   _ctype_procedure_cache, malformed, next_handle, latest_wrapper>>

\* A step inside the loop that touches only the loop's position.
LoopStep ==
    UNCHANGED <<_running, storeVars, osVars, latest_wrapper, bind_i,
                has_deadline, elapsed, frames, ret>>

\* A time limit that is looked at one unit late.
deadline_passed_late(stop_in_given, t) == stop_in_given /\ t > StopIn + 1

\* `stop_in is not None and (time.time() - started_at) > stop_in`
deadline_passed(stop_in_given, t) == stop_in_given /\ t > StopIn

\* The clock moves on while run(stop_in) is on the stack; past the limit it is
\* no longer followed.
time_passes ==
    /\ pc # "idle" /\ has_deadline
    /\ elapsed <= StopIn
    /\ elapsed' = elapsed + 1
    /\ UNCHANGED <<_running, storeVars, osVars, latest_wrapper, pc, bind_i,
                   has_deadline, pollVars, callee, payload, frames, ret>>

\* The wait returns and the time limit of run(stop_in) has passed.
wait_deadline ==
    /\ pc = "waiting" /\ _running
    /\ deadline_passed(has_deadline, elapsed)
    /\ msg_loop_exit("none")

\* `while self._running` is false, or the wait returns WAIT_OBJECT_0 (STOP_EVENT).
wait_stop ==
    /\ pc = "waiting"
    /\ msg_loop_exit("none")

\* KeyboardInterrupt in the loop: caught by msg_loop.
wait_interrupt ==
    /\ pc = "waiting" /\ _running
    /\ msg_loop_exit("none")

\* The wait returns WAIT_OBJECT_0 + 1: messages are pumped.
wait_message ==
    /\ pc = "waiting" /\ _running
    /\ ~deadline_passed(has_deadline, elapsed)
    /\ pc' = "pumping"
    /\ UNCHANGED <<pollVars, callee, payload>>
    /\ LoopStep

\* The wait returns none of the three codes: logged, the loop goes on.
wait_error ==
    /\ pc = "waiting" /\ _running
    /\ ~deadline_passed(has_deadline, elapsed)
    /\ ret' = [op |-> "log", raised |-> "none", value |-> NoValue]
    /\ UNCHANGED <<_running, storeVars, osVars, latest_wrapper, loopVars>>

\* The wait returns WAIT_TIMEOUT: the poll tick starts iterating the dict.
wait_timeout ==
    /\ pc = "waiting" /\ _running
    /\ ~deadline_passed(has_deadline, elapsed)
    /\ pc' = "polling"
    /\ poll_detached' = FALSE
    /\ poll_dict' = EmptyDict
    /\ poll_size' = Len(_cb_checkable_events)
    /\ poll_k' = 0
    /\ poll_j' = 0
    /\ poll_log' = <<>>
    /\ UNCHANGED <<callee, payload>>
    /\ LoopStep

\* PumpWaitingMessages delivers an event in the range of a live hook: the OS
\* calls the hook's trampoline, which calls the callable it closed over.
native_fire(hook, event) ==
    /\ pc = "pumping"
    /\ hook \in DOMAIN os_hooks
    /\ os_hooks[hook].range[1] <= event /\ event <= os_hooks[hook].range[2]
    /\ pc' = "native_cb"
    /\ callee' = os_hooks[hook].func
    /\ payload' = [hook |-> hook, event |-> event]
    /\ UNCHANGED pollVars
    /\ LoopStep

\* The callback ends; an exception it raised is swallowed by ctypes.
native_callback_end ==
    /\ pc = "native_cb"
    /\ pc' = "pumping"
    /\ callee' = NoValue
    /\ payload' = NoValue
    /\ UNCHANGED pollVars
    /\ LoopStep

\* PumpWaitingMessages returns false: next iteration.
pump_return ==
    /\ pc = "pumping"
    /\ pc' = "waiting"
    /\ UNCHANGED <<pollVars, callee, payload>>
    /\ LoopStep

\* PumpWaitingMessages returns true (WM_QUIT): break.
pump_quit ==
    /\ pc = "pumping"
    /\ msg_loop_exit("none")

\* PumpWaitingMessages raises: logged, break; nothing propagates.
pump_raise ==
    /\ pc = "pumping"
    /\ msg_loop_exit("none")

\* The dict the poll tick iterates.
IterDict == IF poll_detached THEN poll_dict ELSE _cb_checkable_events

\* The dict iterator moves to the next key: RuntimeError if the dict changed
\* size, the end of the tick after the last key.
poll_next_key ==
    /\ pc = "polling"
    /\ IF poll_k = 0 THEN TRUE ELSE poll_j >= Len(IterDict[poll_k].val)
    /\ IF Len(IterDict) # poll_size
       THEN msg_loop_exit("RuntimeError: dictionary changed size")
       ELSE /\ IF poll_k = Len(IterDict)
               THEN /\ pc' = "waiting"
                    /\ poll_k' = 0
                    /\ poll_detached' = FALSE
                    /\ poll_dict' = EmptyDict
                    /\ poll_size' = 0
                    /\ poll_log' = <<>>
               ELSE /\ pc' = pc
                    /\ poll_k' = poll_k + 1
                    /\ UNCHANGED <<poll_detached, poll_dict, poll_size, poll_log>>
            /\ poll_j' = 0
            /\ UNCHANGED <<callee, payload>>
            /\ LoopStep

PollHasEvent ==
    /\ pc = "polling"
    /\ poll_k > 0
    /\ poll_j < Len(IterDict[poll_k].val)

\* What the history keeps of one `event.check()`: the condition, the key it is
\* listed under and what check() returned.
Checked(val) ==
    [event |-> IterDict[poll_k].val[poll_j + 1], cb |-> IterDict[poll_k].key,
     val |-> val]

\* A check() that makes the loop pass over the condition after it.
poll_check_false_skipping ==
    /\ PollHasEvent
    /\ poll_j' = poll_j + 2
    /\ poll_log' = Append(poll_log, Checked(FALSE))
    /\ UNCHANGED <<pc, poll_detached, poll_dict, poll_size, poll_k, callee, payload>>
    /\ LoopStep

\* event.check() returns false.
poll_check_false ==
    /\ PollHasEvent
    /\ poll_j' = poll_j + 1
    /\ poll_log' = Append(poll_log, Checked(FALSE))
    /\ UNCHANGED <<pc, poll_detached, poll_dict, poll_size, poll_k, callee, payload>>
    /\ LoopStep

\* EventData(window=None, event_info=None, context={}): the dataclass.
EventData(window, event_info, context) ==
    [window |-> window, event_info |-> event_info, context |-> context]

\* What get_idle_time() may return when result() asks: more than the threshold,
\* or nothing if the user touched the machine since check().
MeasuredIdle == {0, TraceSeconds + 1}

\* IdleCheck.result(): an empty EventData whose context gets "idle_for".
IdleCheck_result(idle_time) ==
    EventData(NoWindow, NoValue, [idle_for |-> idle_time])

\* `EventData(context=event.result())`: what the loop calls the callback with.
poll_payload(event_result) == EventData(NoWindow, NoValue, event_result)

\* event.check() returns true: the derived callable is looked up and called
\* with an EventData made from event.result().
poll_check_true ==
    /\ PollHasEvent
    /\ pc' = "poll_cb"
    /\ callee' = get_derived_callable(_derived_callback, IterDict[poll_k].key)
    /\ \E idle_time \in MeasuredIdle :
          payload' = poll_payload(IdleCheck_result(idle_time))
    /\ poll_log' = Append(poll_log, Checked(TRUE))
    /\ UNCHANGED <<poll_detached, poll_dict, poll_size, poll_k, poll_j>>
    /\ LoopStep

\* event.check() or event.result() raises: it propagates out of run().
poll_check_raise ==
    /\ PollHasEvent
    /\ msg_loop_exit("Exception")

\* The callback of a poll tick returns.
poll_callback_return ==
    /\ pc = "poll_cb"
    /\ pc' = "polling"
    /\ poll_j' = poll_j + 1
    /\ callee' = NoValue
    /\ payload' = NoValue
    /\ UNCHANGED <<poll_detached, poll_dict, poll_size, poll_k, poll_log>>
    /\ LoopStep

\* The callback of a poll tick raises: it propagates out of run().
poll_callback_raise ==
    /\ pc = "poll_cb"
    /\ msg_loop_exit("Exception")

\* -------------------------------------------------------------------- Next
\* The steps of run() and msg_loop that no input decides.
LoopNext ==
    \/ bind_done
    \/ time_passes
    \/ wait_deadline
    \/ wait_stop
    \/ wait_interrupt
    \/ wait_message
    \/ wait_error
    \/ wait_timeout
    \/ \E hook \in 1..MaxHooks, event \in EventIds : native_fire(hook, event)
    \/ native_callback_end
    \/ pump_return
    \/ pump_quit
    \/ pump_raise
    \/ poll_next_key
    \/ poll_check_false
    \/ poll_check_true
    \/ poll_check_raise
    \/ poll_callback_return
    \/ poll_callback_raise

\* The life of the hooks: registration of single events, runs of the loop,
\* callbacks that register, clear the store or call run() again.
StoreNext ==
    \/ \E cb \in UserFuncs, events \in IntArgs : add_user_func(cb, events)
    \/ \E cb \in Decorated, event \in Conds : add_user_func_checkable(cb, event)
    \/ clear_store
    \/ run_rejected
    \/ \E deadline \in BOOLEAN : run_start(deadline)
    \/ \E bad \in BOOLEAN : bind_hook(bad)
    \/ bind_raise
    \/ LoopNext

Next == StoreNext /\ UNCHANGED <<idleVars, filterVars>>

Spec == Init /\ [][Next]_vars

\* The derived callables: filters stacked on a function before and after it is
\* registered, while the loop is idle or running.
DerivedNext ==
    \/ \E cb \in Decorated, events \in IntArgs : add_user_func(cb, events)
    \/ \E cb \in Decorated, event \in Conds : add_user_func_checkable(cb, event)
    \/ \E d \in Filters, cb \in Decorated :
          \E func \in {Bare(cb), latest_wrapper[cb]} : ApplyFilter(d, func)
    \/ run_rejected
    \/ \E deadline \in BOOLEAN : run_start(deadline)
    \/ bind_hook(FALSE)
    \/ LoopNext

\* Registration: every shape of the `events` argument, and clear_store.
RegNext ==
    \/ \E cb \in UserFuncs, events \in IntArgs : add_user_func(cb, events)
    \/ \E cb \in UserFuncs, events \in PairArgs : add_user_func(cb, events)
    \/ \E cb \in UserFuncs, events \in ListArgs : add_user_func(cb, events)
    \/ \E cb \in UserFuncs, event \in Conds : add_user_func_checkable(cb, event)
    \/ clear_store

NextReg == RegNext /\ UNCHANGED <<idleVars, filterVars>>

SpecReg == Init /\ [][NextReg]_vars

NextDerived == DerivedNext /\ UNCHANGED <<idleVars, filterVars>>

SpecDerived == Init /\ [][NextDerived]_vars

\* Poll ticks: idleness callbacks registered for two callables in any order,
\* then runs of the loop whose callbacks may put filters on themselves.
PollFuncs == {"f", "obj"}
PollNext ==
    \/ \E cb \in PollFuncs : idleness(cb)
    \/ \E d \in Filters, cb \in Decorated :
          \E func \in {Bare(cb), latest_wrapper[cb]} : ApplyFilter(d, func)
    \/ \E deadline \in BOOLEAN : run_start(deadline)
    \/ bind_done
    \/ time_passes
    \/ wait_deadline
    \/ wait_stop
    \/ wait_timeout
    \/ poll_next_key
    \/ poll_check_false
    \/ poll_check_true
    \/ poll_check_raise
    \/ poll_callback_return
    \/ poll_callback_raise

NextPoll == PollNext /\ UNCHANGED <<idleVars, filterVars>>

SpecPoll == Init /\ [][NextPoll]_vars

\* Poll ticks over conditions registered again and again, for the same function
\* or another, before the loop runs.
RepeatNext ==
    \/ \E cb \in PollFuncs, event \in Conds :
          pc = "idle" /\ add_checkable(cb, event, MaxRegs)
    \/ \E deadline \in BOOLEAN : run_start(deadline)
    \/ bind_done
    \/ time_passes
    \/ wait_deadline
    \/ wait_stop
    \/ wait_timeout
    \/ poll_next_key
    \/ poll_check_false
    \/ poll_check_true
    \/ poll_check_raise
    \/ poll_callback_return
    \/ poll_callback_raise

NextRepeat == RepeatNext /\ UNCHANGED <<idleVars, filterVars>>

SpecRepeat == Init /\ [][NextRepeat]_vars

\* Functions decorated with the decorators of listen_to, and the store cleared.
ListenNext ==
    \/ \E name \in ListenTo, cb \in Decorated \cup {"obj"} :
          listen_to_call(name, Bare(cb))
    \/ clear_store

NextListen == ListenNext /\ UNCHANGED <<idleVars, filterVars>>

SpecListen == Init /\ [][NextListen]_vars

\* Derived callables written between runs only: filters are put on a function
\* while the loop is not running, and the runs that follow deliver events.
WritesNext ==
    \/ \E cb \in Decorated, events \in IntArgs : add_user_func(cb, events)
    \/ \E cb \in Decorated, event \in Conds : add_user_func_checkable(cb, event)
    \/ \E d \in Filters, cb \in Decorated :
          \E func \in {Bare(cb), latest_wrapper[cb]} :
              pc = "idle" /\ ApplyFilter(d, func)
    \/ \E deadline \in BOOLEAN : run_start(deadline)
    \/ \E bad \in BOOLEAN : bind_hook(bad)
    \/ LoopNext

NextWrites == WritesNext /\ UNCHANGED <<idleVars, filterVars>>

SpecWrites == Init /\ [][NextWrites]_vars

\* Calls of the two functions on event ranges, on arguments of every shape:
\* ints, strings, tuples of up to three ints, and lists of up to two of those.
ShapeItems ==
    {PyInt(e) : e \in EventIds} \cup {PyStr, PyColl(<<>>)}
        \cup {PyColl(<<PyInt(a)>>) : a \in EventIds}
        \cup {PyPair(r) : r \in Ranges}
        \cup {PyColl(<<PyInt(a), PyInt(b), PyInt(c)>>) :
                 a \in EventIds, b \in EventIds, c \in EventIds}
Shapes ==
    ShapeItems \cup {PyColl(<<x>>) : x \in ShapeItems}
        \cup {PyColl(<<x, y>>) : x \in ShapeItems, y \in ShapeItems}
\* Event ids below, at, between and above the ends of the namespaces, named
\* (10, 11, 32768) and not (24, 41000).
SampleIds == {0, EVENT_MIN, 10, 11, 24, 32768, _EVENT_AIA_START, 41000,
              _EVENT_AIA_END, EVENT_MAX}
SampleRanges ==
    {<<a>> : a \in SampleIds} \cup {<<a, b>> : a \in SampleIds, b \in SampleIds}
        \cup {<<a, b, 32791>> : a \in {10, 11}, b \in {10, 11}}
NormalizeNext ==
    \/ \E events \in Shapes : coerce_event_ranges_call(events)
    \/ \E rng \in SampleRanges : is_valid_range_call(rng)

NextNormalize == NormalizeNext /\ UNCHANGED <<idleVars, filterVars>>

SpecNormalize == Init /\ [][NextNormalize]_vars

\* Runs with a time limit of a store that functions were registered with: the
\* clock moves, every wait, callback and condition returns and the message pump
\* does not deliver messages for ever.
RegisteredRanges ==
    {EmptyDict,
     DictAppend(EmptyDict, "f", <<1, 1>>),
     DictAppend(DictAppend(EmptyDict, "f", <<1, 1>>), "f", <<MaxEvent, MaxEvent>>),
     DictAppend(DictAppend(EmptyDict, "f", <<1, 1>>), "obj", <<1, 1>>)}
RegisteredConds ==
    {EmptyDict} \cup {DictAppend(EmptyDict, cb, event) : cb \in Decorated, event \in Conds}

InitDeadline ==
    /\ \E ranges \in RegisteredRanges, conds \in RegisteredConds :
          StoreInitWith(ranges, conds)
    /\ IdleCheck_init(TraceSeconds, 1)
    /\ NoFilterCall

DeadlineNext ==
    \/ run_start(TRUE)
    \/ bind_hook(FALSE)
    \/ bind_raise
    \/ LoopNext

NextDeadline == DeadlineNext /\ UNCHANGED <<idleVars, filterVars>>

\* The steps the running thread takes by itself.
LoopProgress ==
    (bind_hook(FALSE) \/ bind_raise \/ LoopNext) /\ UNCHANGED <<idleVars, filterVars>>
\* PumpWaitingMessages returns.
PumpEnds ==
    (pump_return \/ pump_quit \/ pump_raise) /\ UNCHANGED <<idleVars, filterVars>>
ClockMoves == time_passes /\ UNCHANGED <<idleVars, filterVars>>

\* Where the running thread is, and the clock.
progressVars == <<pc, bind_i, elapsed, poll_k, poll_j>>

SpecDeadline ==
    /\ InitDeadline
    /\ [][NextDeadline]_vars
    /\ WF_progressVars(LoopProgress)
    /\ WF_progressVars(ClockMoves)
    /\ SF_progressVars(PumpEnds)

\* Ranges that may overlap, registered for one function or two, then hooked by
\* runs whose message pump delivers the events of the live hooks.
OverlapNext ==
    \/ \E cb \in PollFuncs, events \in PairArgs : add_user_func(cb, events)
    \/ run_start(FALSE)
    \/ \E bad \in BOOLEAN : bind_hook(bad)
    \/ bind_raise
    \/ bind_done
    \/ wait_stop
    \/ wait_message
    \/ \E hook \in 1..MaxHooks, event \in EventIds : native_fire(hook, event)
    \/ native_callback_end
    \/ pump_return

NextOverlap == OverlapNext /\ UNCHANGED <<idleVars, filterVars>>

SpecOverlap == Init /\ [][NextOverlap]_vars

\* A loop nobody stops, whose conditions stay true: what the wait returns, a
\* message or a timeout, is the operating system's choice at every iteration.
InitBusy ==
    /\ LET twice == {DictAppend(DictAppend(EmptyDict, "f", event), cb, other) :
                        event \in Conds, cb \in PollFuncs, other \in Conds}
       IN \E ranges \in RegisteredRanges, conds \in RegisteredConds \cup twice :
             StoreInitWith(ranges, conds)
    /\ IdleCheck_init(TraceSeconds, 1)
    /\ NoFilterCall

BusySteps ==
    \/ bind_hook(FALSE)
    \/ bind_done
    \/ wait_message
    \/ wait_timeout
    \/ \E hook \in 1..MaxHooks, event \in EventIds : native_fire(hook, event)
    \/ native_callback_end
    \/ pump_return
    \/ poll_next_key
    \/ poll_check_true
    \/ poll_callback_return

BusyNext ==
    \/ run_start(FALSE)
    \/ BusySteps

NextBusy == BusyNext /\ UNCHANGED <<idleVars, filterVars>>

\* The loop thread always takes its next step; nothing says which one.
SpecBusy ==
    /\ InitBusy
    /\ [][NextBusy]_vars
    /\ WF_progressVars(BusySteps /\ UNCHANGED <<idleVars, filterVars>>)

\* An IdleCheck of any threshold and limit, ticked once a second with any idle
\* time; the store stays as constructed.
InitIdle ==
    /\ StoreInit
    /\ \E s \in Thresholds, n \in 1..MaxLimit : IdleCheck_init(s, n)
    /\ NoFilterCall

NextIdle ==
    /\ \E idle_time \in IdleTimes : IdleCheck_check(idle_time)
    /\ UNCHANGED <<_running, storeVars, osVars, latest_wrapper, loopVars, ret,
                   filterVars>>

SpecIdle == InitIdle /\ [][NextIdle]_vars

\* Filtered callbacks of every shape, each called once with every payload; the
\* store and the IdleCheck stay as constructed.
InitFilter ==
    /\ StoreInit
    /\ IdleCheck_init(TraceSeconds, 1)
    /\ f_stack \in Stacks
    /\ f_data \in Datas
    /\ f_out = Pending

NextFilter ==
    /\ CallWrapped
    /\ UNCHANGED <<_running, storeVars, osVars, latest_wrapper, loopVars, ret,
                   idleVars>>

SpecFilter == InitFilter /\ [][NextFilter]_vars

\* ================================================================== claims
\* The handles the store holds, in the order unregister_all_hooks visits them.
StoredHandles == ChainValues(_callback_hooks_handles)
\* The user function whose handle list holds `hook`.
HookOwner(hook) ==
    CHOOSE cb \in Keys(_callback_hooks_handles) :
        hook \in SeqToSet(DictGet(_callback_hooks_handles, cb))
\* How often `r` stands in the list of ranges of `cb`.
Occurrences(ranges, cb, r) ==
    Cardinality({i \in 1..Len(DictGet(ranges, cb)) : DictGet(ranges, cb)[i] = r})
ValidRanges == {r \in Ranges : r[1] <= r[2]}
ValidFuncs == {"f", "obj"}
LoopExceptions == {"none", "Exception", "RuntimeError: dictionary changed size"}
\* A step that leaves msg_loop (its `finally` runs).
LeavesLoop == \E exc \in LoopExceptions : msg_loop_exit(exc)

\* C1: whenever the store is not running, no native hook is live and the store
\* holds no hook handle: every exit of run() has unregistered what it hooked.
C1_NoHookOutlivesRun ==
    ~_running => (DOMAIN os_hooks = {} /\ StoredHandles = <<>>)

\* C2: whenever run() has returned or raised, whatever ended it, the store is
\* idle again: is_running() is false and the next run() is accepted.
C2_IdleAfterRun ==
    pc = "idle" => (~_running /\ ~already_running)
\* A run() that raised has returned to the caller.
C2_Witness ==
    /\ pc = "idle"
    /\ ret.op = "run"
    /\ ret.raised \in {"AttributeError", "Exception", "ArgumentError"}
    /\ ~_running

\* C3: run() called while a loop is running raises, hooks nothing and leaves
\* the flag and the live hooks as they were; no run() starts binding in a
\* running store, so at most one loop is ever on the stack.
C3_RunWhileRunningRejected ==
    [][ /\ frames' = <<>>
        /\ (_running /\ pc # "binding") => pc' # "binding"
        /\ (InUserCode /\ _running /\ pc' = pc /\ ret'.op = "run" /\ ret' # ret)
             => /\ ret'.raised = "RuntimeError: already running"
                /\ UNCHANGED <<_running, storeVars, osVars>> ]_vars
\* run() was called from a callback while hooks were live, and raised.
C3_Witness ==
    /\ pc \in {"native_cb", "poll_cb"}
    /\ ret.op = "run"
    /\ ret.raised = "RuntimeError: already running"
    /\ DOMAIN os_hooks # {}
    /\ _running

\* C4: add_user_func(cb, r) for a range r not yet bound to cb returns {r: True}
\* and binds r once; for a range already bound it returns {r: False} and leaves
\* the bindings alone; no (callback, range) pair is ever bound twice.
C4_DuplicateRegistrationRejected ==
    [][ /\ \A cb \in ValidFuncs, r \in ValidRanges :
              (ret'.op = "add_user_func"
                  /\ add_user_func(cb, PyPair(r))) =>
                  IF Occurrences(_cb_ranges, cb, r) = 0
                  THEN /\ ret'.raised = "none"
                       /\ ret'.value = (r :> TRUE)
                       /\ Occurrences(_cb_ranges', cb, r) = 1
                  ELSE /\ ret'.raised = "none"
                       /\ ret'.value = (r :> FALSE)
                       /\ _cb_ranges' = _cb_ranges
        /\ \A cb \in UserFuncs, r \in Ranges :
              Occurrences(_cb_ranges', cb, r) <= 1 ]_vars

\* `cb` has a range or a pollable condition bound to it.
Registered(cb) == cb \in Keys(_cb_ranges) \cup Keys(_cb_checkable_events)
\* C5: once filters have been stacked on a registered function, whether before
\* or after its registration, get_derived_callable(f) is the wrapper the last
\* decorator returned.
C5_DerivedIsLatestWrapper ==
    \A cb \in Decorated :
        (Registered(cb) /\ latest_wrapper[cb] # Bare(cb))
            => get_derived_callable(_derived_callback, cb) = latest_wrapper[cb]
\* A registered function wearing a stack of two filters.
C5_Witness ==
    \E cb \in Decorated :
        /\ Registered(cb)
        /\ Len(latest_wrapper[cb].filters) >= 2
        /\ _derived_callback[cb] = latest_wrapper[cb]

\* C6 as claimed: a native event invokes the derived callable the store holds
\* at the time of the call.
C6_TrampolineResolvesAtCallTime ==
    [][ (pc = "pumping" /\ pc' = "native_cb")
            => callee' = get_derived_callable(_derived_callback,
                                              HookOwner(payload'.hook)) ]_vars
\* C7: a handle ctypes cannot convert is a soft failure of the sweep: no
\* exception reaches the caller of unregister_all_hooks (loop exit, clear_store)
\* and every other stored handle is unregistered.
C7_MalformedHandleIsSoftFailure ==
    [][ (clear_store \/ LeavesLoop)
            => /\ ret'.raised # "ArgumentError"
               /\ \A h \in DOMAIN os_hooks' : h \in malformed ]_vars

\* C8: clear_store unregisters each live hook exactly once, no other handle,
\* and leaves the store as constructed.
C8_ClearStoreResets ==
    [][ clear_store
            => /\ \A h \in 1..MaxHooks :
                     unhook_calls'[h] =
                         unhook_calls[h] + (IF h \in DOMAIN os_hooks THEN 1 ELSE 0)
               /\ _cb_ranges' = EmptyDict
               /\ _cb_checkable_events' = EmptyDict
               /\ _derived_callback' = EmptyMap
               /\ _callback_hooks_handles' = EmptyDict
               /\ _ctype_procedure_cache' = <<>> ]_vars

\* C9: with limit n, check() answers true on exactly the first min(n, length)
\* ticks of every maximal run of ticks idle for more than `seconds`, false on
\* the later ticks of the run and on every tick not idle that long; the first
\* idle tick after one that was not is the first of a new run, and true.
C9_FirstTicksOfEachIdleRun ==
    ticks > 0 => (result <=> (run_len >= 1 /\ run_len <= check_count_limit))
\* A run of idle ticks that has outlasted the limit by two ticks.
C9_Witness ==
    /\ run_len > check_count_limit + 1
    /\ check_count = 0
    /\ ~result

\* C10: IdleCheck(5, 2), fed the idle times of the documented trace one tick
\* after the other, answers every row of the table as documented, beginning
\* with F F F F F F T T F.
C10_ReferenceTrace ==
    (on_trace /\ ticks > 0) => result = TraceExpected[ticks]
\* The whole table has been fed.
C10_Witness ==
    /\ on_trace
    /\ seconds = TraceSeconds
    /\ check_count_limit = TraceLimit
    /\ ticks = Len(TraceIdle)
    /\ ~result

\* ---------------------------------------------------------------- filters
\* The call of the filtered callback has been made.
Done == f_out # Pending
\* The filter `f`, used as a filter by itself, passes `data`.
Passes(f, data) ==
    LET e == event_test(f, data, 1) IN e.raised = "none" /\ e.val
\* The callback under test is wrapped by one all_filters / any_filter.
IsAllFilters == Len(f_stack) = 1 /\ f_stack[1].test_func.kind = "all"
IsAnyFilter == Len(f_stack) = 1 /\ f_stack[1].test_func.kind = "any"
GivenFilters == f_stack[1].test_func.filters

\* C11: a callback wrapped by all_filters(P1, ..., Pn) is invoked on a payload
\* that is not None if and only if every Pi passes the payload.
C11_AllFiltersIffEvery ==
    (Done /\ IsAllFilters /\ f_data # NoValue)
        => (f_out.invoked = 1
                <=> \A i \in 1..Len(GivenFilters) : Passes(GivenFilters[i], f_data))

\* C12: a callback wrapped by any_filter(P1, ..., Pn) is invoked on a payload
\* that is not None if and only if at least one Pi passes the payload, also
\* when that Pi was made with require_existing_window=False and the payload has
\* no window.
C12_AnyFilterIffSome ==
    (Done /\ IsAnyFilter /\ f_data # NoValue)
        => (f_out.invoked = 1
                <=> \E i \in 1..Len(GivenFilters) : Passes(GivenFilters[i], f_data))

IsInner(st) == st.step = "inner"
\* The filters a combinator applied, in the order it applied them.
InnerSteps == SelectSeq(f_out.trace, IsInner)
\* C13: all_filters and any_filter apply the filters they were given in the
\* order given, and none after the first that is false (all_filters) or the
\* first that is true (any_filter).
C13_CombinatorsShortCircuit ==
    (Done /\ (IsAllFilters \/ IsAnyFilter))
        => /\ \A k \in 1..Len(InnerSteps) : InnerSteps[k].i = k
           /\ \A k \in 2..Len(InnerSteps) :
                 LET before == apply_filter(GivenFilters[k - 1], f_data)
                 IN before.raised = "none" /\ (before.val <=> IsAllFilters)
\* all_filters stopped at a first filter that is false, with another behind it.
C13_Witness ==
    /\ Done
    /\ IsAllFilters
    /\ Len(GivenFilters) = 2
    /\ Len(InnerSteps) = 1
    /\ ~apply_filter(GivenFilters[1], f_data).val
    /\ apply_filter(GivenFilters[1], f_data).raised = "none"

\* One filter made of a plain test function is on the callback.
IsPlain == Len(f_stack) = 1 /\ f_stack[1].test_func.kind = "atom"
\* The test function of the filter at depth d was evaluated.
Tested(d) ==
    \E k \in 1..Len(f_out.trace) :
        f_out.trace[k].step = "test" /\ f_out.trace[k].d = d
\* C14: when the test function raises the stale-handle error (winerror 1400),
\* a capturing filter fails the payload (no call of F, None returned, nothing
\* raised) and a filter that does not capture re-raises it; any other error of
\* the test function propagates from both.
C14_StaleHandleCaptured ==
    (Done /\ IsPlain /\ f_data # NoValue /\ Tested(1))
        => /\ f_stack[1].test_func.name = "stale"
                => IF f_stack[1].capture_invalid_window_handle
                   THEN /\ f_out.invoked = 0
                        /\ f_out.returned = "None"
                        /\ f_out.raised = "none"
                   ELSE f_out.invoked = 0 /\ f_out.raised = "stale"
           /\ f_stack[1].test_func.name = "error"
                => f_out.invoked = 0 /\ f_out.raised = "error"
\* A capturing filter has swallowed the stale-handle error of its test.
C14_Witness ==
    /\ Done
    /\ IsPlain
    /\ f_data # NoValue
    /\ Tested(1)
    /\ f_stack[1].test_func.name = "stale"
    /\ f_stack[1].capture_invalid_window_handle
    /\ f_out.raised = "none"

\* C15: of the stack D1(D2(F)) a call evaluates D1 first; D2 is evaluated only
\* if D1 passed; F is invoked if and only if D1 and D2 passed.
C15_StackOutsideIn ==
    (Done /\ Len(f_stack) = 2 /\ f_data # NoValue)
        => /\ \A j, k \in 1..Len(f_out.trace) :
                 (f_out.trace[j].d = 1 /\ f_out.trace[k].d = 2) => j < k
           /\ (\E k \in 1..Len(f_out.trace) : f_out.trace[k].d = 2)
                 => Passes(f_stack[1], f_data)
           /\ f_out.invoked = 1
                 <=> (Passes(f_stack[1], f_data) /\ Passes(f_stack[2], f_data))
\* D1 passed, D2 was evaluated and failed: F was not called.
C15_Witness ==
    /\ Done
    /\ Len(f_stack) = 2
    /\ f_data # NoValue
    /\ Passes(f_stack[1], f_data)
    /\ Tested(2)
    /\ ~Passes(f_stack[2], f_data)
    /\ f_out.invoked = 0

\* The event_test of the filter at depth d of the stack, taken by itself.
TestOf(d) == event_test(f_stack[d], f_data, d)
\* C16: called with None, a filtered callback returns None without evaluating
\* anything and without calling F; called with a payload every filter passes
\* it calls F once and returns what F returned; called with a payload a filter
\* fails it returns None, does not call F and raises nothing.
C16_WrapperOutcomes ==
    Done =>
        /\ f_data = NoValue => f_out = Called(0, "None", "none", <<>>)
        /\ (f_data # NoValue /\ \A d \in 1..Len(f_stack) : Passes(f_stack[d], f_data))
              => /\ f_out.invoked = 1
                 /\ f_out.returned = "result"
                 /\ f_out.raised = "none"
        /\ (f_data # NoValue
              /\ \E d \in 1..Len(f_stack) :
                    /\ TestOf(d).raised = "none"
                    /\ ~TestOf(d).val
                    /\ \A c \in 1..(d - 1) : Passes(f_stack[c], f_data))
              => /\ f_out.invoked = 0
                 /\ f_out.returned = "None"
                 /\ f_out.raised = "none"
\* A stack of two filters has been called with None.
C16_Witness ==
    /\ Done
    /\ f_data = NoValue
    /\ Len(f_stack) = 2
    /\ f_out.returned = "None"

\* The place of a step in the fixed order of one filter's evaluation.
Rank(st) ==
    CASE st.step = "exists" -> 1
      [] st.step = "sys"    -> 2
      [] st.step = "test"   -> 3
      [] OTHER              -> 4
\* The guards run in the order (a), (b), and before the test function.
GuardsInOrder ==
    \A j, k \in 1..Len(f_out.trace) :
        j < k => Rank(f_out.trace[j]) <= Rank(f_out.trace[k])
\* Guard (b) rejects the payload.
SysGuardRejects ==
    f_stack[1].exclude_sys_windows /\ ~exclude_system_windows(f_data)
\* C17 as claimed: the guards run first and in order, the test function is
\* evaluated only if no guard rejects, and guard (a) rejects only a payload
\* that carries a window which no longer exists, not one without a window.
C17_WindowGuardOnlyForDeadWindows ==
    (Done /\ Len(f_stack) = 1 /\ f_data # NoValue)
        => /\ GuardsInOrder
           /\ Tested(1)
                 <=> /\ ~(/\ f_stack[1].require_existing_window
                          /\ f_data.window.present
                          /\ ~f_data.window.exists)
                     /\ ~SysGuardRejects
\* C17 amended: the guards run first and in order, the test function is
\* evaluated only if no guard rejects, and guard (a) rejects, when
\* require_existing_window is set, a payload without a window as well as one
\* whose window no longer exists.
C17_GuardsBeforeTest ==
    (Done /\ Len(f_stack) = 1 /\ f_data # NoValue)
        => /\ GuardsInOrder
           /\ Tested(1)
                 <=> /\ ~(/\ f_stack[1].require_existing_window
                          /\ (~f_data.window.present \/ ~f_data.window.exists))
                     /\ ~SysGuardRejects
\* Guard (a) has rejected a payload without a window: nothing else was looked at.
C17_Witness ==
    /\ Done
    /\ Len(f_stack) = 1
    /\ f_data # NoValue
    /\ f_stack[1].require_existing_window
    /\ ~f_data.window.present
    /\ f_out.trace = <<>>
    /\ f_out.invoked = 0

\* C18: a filter made with the default options never calls the callback for a
\* payload without a window.
C18_DefaultFilterNeedsWindow ==
    (/\ Done
     /\ f_data # NoValue
     /\ f_stack[1].require_existing_window
     /\ f_stack[1].exclude_sys_windows
     /\ f_stack[1].capture_invalid_window_handle
     /\ ~f_data.window.present)
        => f_out.invoked = 0
\* A default filter whose test would say yes was given a payload without window.
C18_Witness ==
    /\ Done
    /\ f_stack = <<make_filter_default(Atom("yes"))>>
    /\ f_data = [window |-> NoWindow]
    /\ f_out.invoked = 0

\* ------------------------------------------------------------ the poll tick
\* The conditions check() was called on in this tick, in the order of the calls.
LogEvents == [i \in 1..Len(poll_log) |-> poll_log[i].event]
\* The conditions registered, the n-th made being n.
Registered_conds == 1..Len(Pairs(_cb_checkable_events))
\* The first condition registered for a callable.
FirstOf(cb) ==
    CHOOSE e \in SeqToSet(DictGet(_cb_checkable_events, cb)) :
        \A o \in SeqToSet(DictGet(_cb_checkable_events, cb)) : e <= o
\* The tick is over: the loop goes back to the wait.
TickEnds == pc = "polling" /\ pc' = "waiting"
\* Every registered condition was checked, and none twice.
EachCheckedOnce ==
    /\ SeqToSet(LogEvents) = Registered_conds
    /\ Len(poll_log) = Cardinality(Registered_conds)
\* Callable by callable, in the order the callables got their first condition;
\* the conditions of one callable in the order they were registered.
GroupedOrder ==
    \A i, j \in 1..Len(poll_log) :
        i < j =>
            IF poll_log[i].cb = poll_log[j].cb
            THEN poll_log[i].event < poll_log[j].event
            ELSE FirstOf(poll_log[i].cb) < FirstOf(poll_log[j].cb)
\* A check() has just returned `val`.
JustChecked(val) ==
    /\ Len(poll_log') = Len(poll_log) + 1
    /\ poll_log'[Len(poll_log')].val = val
\* What a check() is followed by: if true the call of the callable that is now
\* the function's derived one, before anything else; if false no result() and
\* no call.
CheckThenCall ==
    /\ JustChecked(TRUE) =>
          /\ pc' = "poll_cb"
          /\ callee' = latest_wrapper[poll_log'[Len(poll_log')].cb]
          /\ payload' # NoValue
    /\ JustChecked(FALSE) => (pc' = "polling" /\ payload' = NoValue /\ callee' = NoValue)
    /\ pc = "poll_cb" =>
          /\ pc' \in {"poll_cb", "polling", "idle"}
          /\ pc' = "poll_cb" => poll_log' = poll_log

C20_CallbackGetsResult ==
    [][JustChecked(TRUE) =>
          /\ payload'.window = NoWindow
          /\ payload'.event_info = NoValue
          /\ DOMAIN payload'.context = {"idle_for"}
          /\ payload'.context.idle_for \in MeasuredIdle]_vars

\* ------------------------------------------------------------ the time limit
\* The wait is about to return with the time limit of run(stop_in) exceeded.
DeadlineSeen == pc = "waiting" /\ _running /\ has_deadline /\ elapsed > StopIn
\* C21: run(stop_in) returns in the end if every wait and callback returns, and
\* the wait that returns after the limit was exceeded ends the loop at once:
\* no message is pumped and no condition checked on that tick.
C21_DeadlineEndsRun ==
    /\ [][DeadlineSeen =>
              /\ ret'.op = "run"
              /\ ~_running'
              /\ pc' \notin {"pumping", "polling", "native_cb", "poll_cb"}
      ]_vars
    /\ (pc # "idle") ~> (pc = "idle")
\* A run with a hook and a condition to look after has ended past its limit.
C21_Witness ==
    /\ pc = "idle"
    /\ ret.op = "run"
    /\ ret.raised = "none"
    /\ elapsed > StopIn
    /\ _cb_ranges # EmptyDict
    /\ _cb_checkable_events # EmptyDict

\* C22: an exception raised while messages are pumped is caught and logged and
\* ends the loop: run() returns normally, no hook is left and the store is idle.
C22_PumpErrorEndsLoopQuietly ==
    [][(pc = "pumping" /\ ret'.op = "run" /\ pump_raise) =>
          /\ ret'.raised = "none"
          /\ ~_running'
          /\ DOMAIN os_hooks' = {}
          /\ ChainValues(_callback_hooks_handles') = <<>>]_vars

\* C23: no binding, of a range or of a pollable condition, is ever stored for a
\* callback whose signature is not one parameter annotated EventData.
C23_NoBindingForBadSignature ==
    \A cb \in UserFuncs :
        ~ValidSignature(cb) =>
            /\ DictGet(_cb_ranges, cb) = <<>>
            /\ DictGet(_cb_checkable_events, cb) = <<>>

\* C24: add_user_func(cb, c) with a pollable condition always appends a binding
\* and returns {c: True}, also for a condition that is bound already, and a
\* tick calls check() once for every bound occurrence.
C24_ConditionsAlwaysBind ==
    [][LET ChecksOf(cb, c) ==
               Cardinality({i \in 1..Len(poll_log) :
                               poll_log[i].cb = cb /\ poll_log[i].event = c})
       IN  /\ (pc = "idle" /\ pc' = "idle" /\ ret'.op = "add_user_func(checkable)") =>
                 \E cb \in PollFuncs, c \in Conds :
                     /\ ret'.raised = "none"
                     /\ ret'.value = (c :> TRUE)
                     /\ _cb_checkable_events' = DictAppend(_cb_checkable_events, cb, c)
                     /\ Occurrences(_cb_checkable_events', cb, c)
                           = Occurrences(_cb_checkable_events, cb, c) + 1
           /\ TickEnds =>
                 \A cb \in PollFuncs, c \in Conds :
                     ChecksOf(cb, c) = Occurrences(_cb_checkable_events, cb, c)]_vars
\* A tick has checked twice a condition bound twice to one function, and once
\* more for its binding to another.
C24_Witness ==
    /\ pc = "polling"
    /\ Occurrences(_cb_checkable_events, "f", "c1") = 2
    /\ Occurrences(_cb_checkable_events, "obj", "c1") = 1
    /\ Len(poll_log) = 3
    /\ Cardinality({i \in 1..3 : poll_log[i].cb = "f" /\ poll_log[i].event = "c1"}) = 2

C26_OnlyThreeShapesNormalize ==
    ret.op = "coerce_event_ranges" =>
        LET events == ret.value.events
            IsPair(x) == is_collection_of_ints(x) /\ Len(x.items) = 2
            IsPairs(x) == /\ is_collection(x)
                          /\ Len(x.items) >= 1
                          /\ \A i \in 1..Len(x.items) : IsPair(x.items[i])
        IN  IF is_int(events)
            THEN /\ ret.raised = "none"
                 /\ ret.value.result = << <<events.n, events.n>> >>
            ELSE IF IsPair(events)
            THEN /\ ret.raised = "none"
                 /\ ret.value.result = << Ints(events) >>
            ELSE IF IsPairs(events)
            THEN /\ ret.raised = "none"
                 /\ ret.value.result
                       = [i \in 1..Len(events.items) |-> Ints(events.items[i])]
            ELSE ret.raised # "none"

\* C27: is_valid_range(rng) is true exactly when rng has two elements a <= b
\* that each lie in EVENT_MIN..EVENT_MAX or in the AIA range.
C27_ValidRangeIffInNamespaces ==
    ret.op = "is_valid_range" =>
        LET rng == ret.value.rng
            InNamespace(e) == \/ EVENT_MIN <= e /\ e <= EVENT_MAX
                              \/ _EVENT_AIA_START <= e /\ e <= _EVENT_AIA_END
        IN  ret.value.result
              = (/\ Len(rng) = 2
                 /\ rng[1] <= rng[2]
                 /\ InNamespace(rng[1])
                 /\ InNamespace(rng[2]))

\* C28: update_callable overwrites (the last write wins, the same write twice
\* is one write), a function nothing was written for is its own derived
\* callable, and a run that follows calls, for an event in the function's
\* ranges, the callable written last.
C28_LastWrittenIsCalled ==
    [][/\ \A d \in Filters, cb \in Decorated :
            \A func \in {Bare(cb), latest_wrapper[cb]} :
                (ret'.op = "filter" /\ ApplyFilter(d, func)) =>
                    LET new_cb == [orig |-> cb, filters |-> <<d>> \o func.filters] IN
                    /\ get_derived_callable(_derived_callback', cb) = new_cb
                    /\ (cb \in DOMAIN _derived_callback
                           /\ _derived_callback[cb] = new_cb)
                          => _derived_callback' = _derived_callback
       /\ \A cb \in Decorated :
            latest_wrapper[cb] = Bare(cb)
                => get_derived_callable(_derived_callback, cb) = Bare(cb)
       /\ (pc = "pumping" /\ pc' = "native_cb")
            => callee' = get_derived_callable(_derived_callback,
                                              unwrap(os_hooks[payload'.hook].func))]_vars

\* C29: a range bound while the loop runs is hooked by the next tick: whenever
\* the running loop waits, every (callback, range) binding of the store has a
\* live native hook that calls the callback for the events of the range.
C29_LateBindingIsHooked ==
    (pc = "waiting" /\ _running) =>
        \A i \in 1..Len(Pairs(_cb_ranges)) :
            \E hook \in DOMAIN os_hooks :
                /\ os_hooks[hook].range = Pairs(_cb_ranges)[i].val
                /\ unwrap(os_hooks[hook].func) = Pairs(_cb_ranges)[i].cb

\* C30: the steps of run() change no binding of a range or of a condition and
\* no derived callable (only calls made by user code do), and when a run has
\* bound its hooks every (callback, range) binding has exactly one live hook
\* and no other hook is live.
C30_RunsKeepBindingsAndRehookOnce ==
    [][/\ (\/ _cb_ranges' # _cb_ranges
           \/ _cb_checkable_events' # _cb_checkable_events
           \/ _derived_callback' # _derived_callback)
            => /\ InUserCode
               /\ pc' = pc
               /\ ret'.op \in {"add_user_func", "add_user_func(checkable)", "filter"}
       /\ (pc = "binding" /\ pc' = "waiting")
            => /\ Cardinality(DOMAIN os_hooks') = Len(Pairs(_cb_ranges'))
               /\ \A i \in 1..Len(Pairs(_cb_ranges')) :
                     Cardinality({hook \in DOMAIN os_hooks' :
                         /\ os_hooks'[hook].range = Pairs(_cb_ranges')[i].val
                         /\ unwrap(os_hooks'[hook].func) = Pairs(_cb_ranges')[i].cb}) = 1]_vars

\* C31: for a filter f and a payload P, apply_filter(f, P) is true if and only
\* if a callback decorated with f is invoked on P.
C31_ApplyFilterIffInvoked ==
    (f_out # Pending /\ Len(f_stack) = 1 /\ f_data # NoValue)
        => LET applied == apply_filter(f_stack[1], f_data)
           IN  (applied.raised = "none" /\ applied.val) <=> f_out.invoked = 1

\* C32: each decorator of listen_to, applied to f, returns a wrapper of f and
\* leaves f registered for the events its documentation names, and binds f to
\* no other event.
C32_ListenToRegistersNamedEvents ==
    [][\A name \in ListenTo, cb \in ValidFuncs :
          (ret'.op = "listen_to" /\ listen_to_call(name, Bare(cb))) =>
              LET Named == CASE name = "create" -> {EVENT_OBJECT_CREATE}
                             [] name = "destroy" -> {EVENT_OBJECT_DESTROY}
                             [] name = "existence_change" ->
                                  {EVENT_OBJECT_CREATE, EVENT_OBJECT_DESTROY}
                             [] name = "restore" -> {EVENT_SYSTEM_MINIMIZEEND}
                             [] name = "minimize" -> {EVENT_SYSTEM_MINIMIZESTART}
                             [] name = "any_event" -> {EVENT_MIN, EVENT_MAX}
                  Others == {EVENT_OBJECT_CREATE, EVENT_OBJECT_DESTROY,
                             EVENT_SYSTEM_MINIMIZEEND, EVENT_SYSTEM_MINIMIZESTART}
                                \ Named
                  Covers(r, e) == r[1] <= e /\ e <= r[2]
                  after == SeqToSet(DictGet(_cb_ranges', cb))
                  bound == after \ SeqToSet(DictGet(_cb_ranges, cb))
              IN  ret'.raised = "none" =>
                      /\ ret'.value.returned = "wrapper"
                      /\ \A e \in Named : \E r \in after : Covers(r, e)
                      /\ name # "any_event" =>
                            \A e \in Others : \A r \in bound : ~Covers(r, e)]_vars

\* C33: when run() has finished binding, the store holds one handle per
\* (callback, range) binding, in the order of the bindings; each is a live hook
\* for that range whose trampoline calls the callback's derived callable, and
\* no other hook is live.
C33_OneHookPerBinding ==
    [][(pc = "binding" /\ pc' = "waiting") =>
          LET bindings == Pairs(_cb_ranges')
              handles == ChainValues(_callback_hooks_handles')
          IN  /\ Len(handles) = Len(bindings)
              /\ DOMAIN os_hooks' = SeqToSet(handles)
              /\ \A i \in 1..Len(handles) :
                    /\ os_hooks'[handles[i]].range = bindings[i].val
                    /\ os_hooks'[handles[i]].func
                          = get_derived_callable(_derived_callback', bindings[i].cb)
              /\ \A i, j \in 1..Len(handles) : i < j => handles[i] < handles[j]]_vars

\* C34: the trampoline of every live native hook is referenced by the store's
\* cache, and the cache is emptied only when no hook is live any more.
C34_LiveHooksAreCached ==
    [][/\ DOMAIN os_hooks' \subseteq SeqToSet(_ctype_procedure_cache')
       /\ Len(_ctype_procedure_cache') < Len(_ctype_procedure_cache)
            => DOMAIN os_hooks' = {}]_vars
\* clear_store has raised at a malformed handle: a hook is still live and the
\* cache still holds its trampoline.
C34_Witness ==
    /\ ret.op = "clear_store"
    /\ ret.raised = "ArgumentError"
    /\ DOMAIN os_hooks # {}
    /\ DOMAIN os_hooks \subseteq SeqToSet(_ctype_procedure_cache)

\* C35: a tick ended by a native event notification checks the bound conditions
\* too, so a condition that stays true is reported to its callback even when
\* every wait is ended by a message.
C35_TrueConditionIsReported ==
    (pc = "pumping" /\ Len(_cb_checkable_events) > 0) ~> (pc = "poll_cb")

\* C36: in the map one add_user_func call returns, a range maps to True exactly
\* when the call bound it: the range is bound after the call and was not before,
\* however often the argument lists it.
C36_TrueIffBoundByThisCall ==
    [][(ret'.op = "add_user_func" /\ ret'.raised = "none") =>
          LET bound == SeqToSet(Pairs(_cb_ranges')) \ SeqToSet(Pairs(_cb_ranges))
          IN \A r \in DOMAIN ret'.value :
                ret'.value[r] <=> (\E b \in bound : b.val = r)]_vars

\* C37: in every state in which is_running() answers true, each registered
\* range has a live native hook.
C37_RunningMeansHooked ==
    _running =>
        \A b \in SeqToSet(Pairs(_cb_ranges)) :
            \E hook \in DOMAIN os_hooks : os_hooks[hook].range = b.val

\* C38: an exception raised by check(), result() or the callback in a poll tick
\* ends the loop at once: no further condition is evaluated, no hook is left,
\* the store is not running and run() raises that exception.
C38_PollErrorEndsLoop ==
    [][(pc \in {"polling", "poll_cb"} /\ ret'.op = "run"
            /\ (poll_check_raise \/ poll_callback_raise)) =>
          /\ ret'.raised = "Exception"
          /\ ~_running'
          /\ DOMAIN os_hooks' = {}
          /\ ChainValues(_callback_hooks_handles') = <<>>
          /\ poll_log' = IF frames = <<>> THEN <<>> ELSE Head(frames).poll_log]_vars

C40_IdleCheckInvariants ==
    ticks > 0 =>
        /\ 0 <= check_count
        /\ check_count <= check_count_limit
        /\ result <=> check_count > 0
        /\ check_count > 0 => previous_in_idle_period
        /\ previous_begin_idle_period => previous_in_idle_period
\* check() has counted up to a limit above one, past the beginning of the period.
C40_Witness ==
    /\ ticks > 0
    /\ result
    /\ check_count = check_count_limit
    /\ check_count > 1
    /\ previous_in_idle_period
    /\ ~previous_begin_idle_period

====
